---- MODULE Spec2Model ----
(***************************************************************************)
(* poolswap: a sync.Pool wrapped with atomic reference counting (Pool) and *)
(* a hot-swappable "current" pointer guarded by a sync.RWMutex (Container).*)
(* Every access to shared memory (an atomic counter operation, a lock      *)
(* operation, a read or write of Container.current, a sync.Pool operation) *)
(* is one step of the goroutine that performs it.                          *)
(***************************************************************************)
EXTENDS Integers, FiniteSets, Sequences, TLC

\* ---------------------------------------------------------------- bounds
NumThreads == 2      \* goroutines calling into the package
MaxObj == 3          \* payloads the factory can allocate in one run
NumContainers == 1   \* Containers that can be constructed in one run
MaxHeld == 2         \* references one goroutine keeps from Acquire at a time
MaxMisuse == 2       \* Release calls one run makes on references the caller does not own

Nil == 0
Thread == 1..NumThreads
Obj == 1..MaxObj
Cont == 1..NumContainers

VARIABLES
    count,      \* Ref.count of every payload
    alloc,      \* payloads the factory has allocated
    internal,   \* Pool.internal: how many times each payload sits in the sync.Pool
    made,       \* the constructor each Container was built by, or "none"
    updated,    \* Containers on which Update has been called
    current,    \* Container.current
    writer,     \* Container.mu: the goroutine that holds the write lock or has announced itself in Lock, or Nil
    readers,    \* Container.mu: the goroutines holding the read lock
    pc,         \* where each goroutine is
    cont,       \* the receiver c of the Container method a goroutine is in
    obj,        \* local obj of Release, returnToPool and Acquire
    r,          \* local r of Get
    newObj,     \* parameter newObj of Update
    oldObj,     \* local oldObj of Update
    fresh,      \* the payload a goroutine owns from Get / GetNew, or Nil
    held,       \* how many references each goroutine owns from Acquire
    Recycled,   \* MockPayload.Recycled: the resetter has run on the payload
    wa,         \* where a goroutine is in WithAcquire, or "no"
    waObj,      \* local obj of WithAcquire
    misuse      \* Release calls made so far on references the caller does not own

objVars == <<count, alloc, internal, Recycled>>
contVars == <<made, updated, current>>
muVars == <<writer, readers>>
locals == <<cont, obj, r, newObj, oldObj>>
owned == <<fresh, held>>
with == <<wa, waObj, misuse>>
vars == <<count, alloc, internal, made, updated, current, writer, readers,
          pc, cont, obj, r, newObj, oldObj, fresh, held, Recycled, wa, waObj, misuse>>

\* ---------------------------------------------------------------- Ref
addRef(c, o, delta) == [c EXCEPT ![o] = @ + delta]
setRef(c, o, v) == [c EXCEPT ![o] = v]

\* ---------------------------------------------------------------- callers
HeldTotal(t) == LET S[n \in 0..MaxObj] == IF n = 0 THEN 0 ELSE S[n - 1] + held[t][n]
                IN  S[MaxObj]

\* The references a well-behaved goroutine may pass to Release: one it owns
\* from Acquire (other than the one WithAcquire has lent to fn), the one it
\* owns from Get, or nil.
\* The reference WithAcquire passes to fn is WithAcquire's to release.
Lent(t, o) == IF wa[t] = "fn" /\ waObj[t] = o THEN 1 ELSE 0

Releasable(t) == {o \in Obj : held[t][o] > Lent(t, o) \/ fresh[t] = o} \cup {Nil}

\* What a well-behaved goroutine may publish: the payload it owns from Get, or nil.
Publishable(t) == {fresh[t], Nil}

GiveUp(t, o) ==
    IF o = Nil THEN UNCHANGED owned
    ELSE IF held[t][o] > Lent(t, o)
         THEN /\ held' = [held EXCEPT ![t][o] = @ - 1]
              /\ UNCHANGED fresh
         ELSE /\ fresh' = [fresh EXCEPT ![t] = Nil]
              /\ UNCHANGED held

\* The caller fills in the payload it is about to publish
\* (newObj.Recycled.Store(false)).
Fill(rec, o) == IF o # Nil THEN [rec EXCEPT ![o] = FALSE] ELSE rec

\* The next payload a "new" allocates: payloads are numbered in the order of
\* their allocation.
Unallocated == {o \in Obj : ~alloc[o] /\ \A q \in Obj : q < o => alloc[q]}

\* A goroutine calls into the package from its own code or from inside the
\* fn it passed to WithAcquire.
CanCall(t) == wa[t] \in {"no", "fn"}

\* Containers are numbered in the order of their construction.
live(c) == made[c] # "none"

NextContainer(c) == ~live(c) /\ \A d \in Cont : d < c => live(d)

Goto(t, label) == pc' = [pc EXCEPT ![t] = label]

\* ---------------------------------------------------------------- NewPool
Init ==
    /\ count = [o \in Obj |-> 0]
    /\ alloc = [o \in Obj |-> FALSE]
    /\ internal = [o \in Obj |-> 0]
    /\ made = [c \in Cont |-> "none"]
    /\ updated = [c \in Cont |-> FALSE]
    /\ current = [c \in Cont |-> Nil]
    /\ writer = [c \in Cont |-> Nil]
    /\ readers = [c \in Cont |-> {}]
    /\ pc = [t \in Thread |-> "idle"]
    /\ cont = [t \in Thread |-> Nil]
    /\ obj = [t \in Thread |-> Nil]
    /\ r = [t \in Thread |-> Nil]
    /\ newObj = [t \in Thread |-> Nil]
    /\ oldObj = [t \in Thread |-> Nil]
    /\ fresh = [t \in Thread |-> Nil]
    /\ held = [t \in Thread |-> [o \in Obj |-> 0]]
    /\ Recycled = [o \in Obj |-> FALSE]
    /\ wa = [t \in Thread |-> "no"]
    /\ waObj = [t \in Thread |-> Nil]
    /\ misuse = 0

\* ---------------------------------------------------------------- Pool.Get
\* r := p.internal.Get().(PT): sync.Pool hands out any item it stores, or calls
\* New (the factory); it may treat itself as empty at any time.
FactoryNew(t) ==
    /\ \E o \in Unallocated :
        /\ alloc' = [alloc EXCEPT ![o] = TRUE]
        /\ r' = [r EXCEPT ![t] = o]
    /\ UNCHANGED <<count, internal, Recycled>>

\* Mutant: Get hands out a stored item without removing it from the pool.
PoolPop_Peek(t) ==
    /\ \E o \in Obj :
        /\ internal[o] > 0
        /\ r' = [r EXCEPT ![t] = o]
    /\ UNCHANGED <<count, alloc, internal, Recycled>>

PoolPop(t) ==
    /\ \E o \in Obj :
        /\ internal[o] > 0
        /\ internal' = [internal EXCEPT ![o] = @ - 1]
        /\ r' = [r EXCEPT ![t] = o]
    /\ UNCHANGED <<count, alloc, Recycled>>

\* Mutant: Get calls New before it looks into the pool, and drops the new
\* payload when the pool had one to give.
GetInternal_EagerNew(t) ==
    /\ pc[t] = "idle"
    /\ CanCall(t)
    /\ fresh[t] = Nil
    /\ \/ \E o \in Obj : \E n \in Unallocated :
            /\ internal[o] > 0
            /\ internal' = [internal EXCEPT ![o] = @ - 1]
            /\ alloc' = [alloc EXCEPT ![n] = TRUE]
            /\ r' = [r EXCEPT ![t] = o]
            /\ UNCHANGED <<count, Recycled>>
       \/ FactoryNew(t)
    /\ Goto(t, "Get_setRef")
    /\ UNCHANGED <<contVars, muVars, cont, obj, newObj, oldObj, owned, with>>

GetInternal(t) ==
    /\ pc[t] = "idle"
    /\ CanCall(t)
    /\ fresh[t] = Nil
    /\ (PoolPop(t) \/ FactoryNew(t))
    /\ Goto(t, "Get_setRef")
    /\ UNCHANGED <<contVars, muVars, cont, obj, newObj, oldObj, owned, with>>

\* Mutant: Get returns the payload with the count it was stored with.
GetSetRef_NoSetRef(t) ==
    /\ pc[t] = "Get_setRef"
    /\ fresh' = [fresh EXCEPT ![t] = r[t]]
    /\ r' = [r EXCEPT ![t] = Nil]
    /\ Goto(t, "idle")
    /\ UNCHANGED <<objVars, contVars, muVars, cont, obj, newObj, oldObj, held, with>>

\* r.setRef(1); return r
GetSetRef(t) ==
    /\ pc[t] = "Get_setRef"
    /\ count' = setRef(count, r[t], 1)
    /\ fresh' = [fresh EXCEPT ![t] = r[t]]
    /\ r' = [r EXCEPT ![t] = Nil]
    /\ Goto(t, "idle")
    /\ UNCHANGED <<alloc, internal, Recycled, contVars, muVars, cont, obj, newObj, oldObj, held, with>>

\* ---------------------------------------------------------------- Pool.Release
\* A call p.Release(o): the caller gives up the reference it passes.
CallPoolRelease(t, o) ==
    /\ pc[t] = "idle"
    /\ CanCall(t)
    /\ o \in Releasable(t)
    /\ GiveUp(t, o)
    /\ obj' = [obj EXCEPT ![t] = o]
    /\ Goto(t, "Release")
    /\ UNCHANGED <<objVars, contVars, muVars, cont, r, newObj, oldObj, with>>

\* Container.Release: c.pool.Release(obj)
CallContainerRelease(t, c, o) ==
    /\ pc[t] = "idle"
    /\ CanCall(t)
    /\ live(c)
    /\ o \in Releasable(t)
    /\ GiveUp(t, o)
    /\ obj' = [obj EXCEPT ![t] = o]
    /\ Goto(t, "Release")
    /\ UNCHANGED <<objVars, contVars, muVars, cont, r, newObj, oldObj, with>>

\* Mutant: Release takes the value addRef returns for the value before the
\* decrement, and returns the payload to the pool when that is 1... one too early.
Release_OldValue(t) ==
    /\ pc[t] = "Release"
    /\ IF obj[t] = Nil
       THEN /\ Goto(t, "idle")
            /\ UNCHANGED <<count, obj>>
       ELSE /\ count' = addRef(count, obj[t], -1)
            /\ IF count'[obj[t]] = 1
               THEN /\ Goto(t, "returnToPool")
                    /\ UNCHANGED obj
               ELSE /\ Goto(t, "idle")
                    /\ obj' = [obj EXCEPT ![t] = Nil]
    /\ UNCHANGED <<alloc, internal, Recycled, contVars, muVars, cont, r, newObj, oldObj, owned, with>>

\* Mutant: Release has no nil check and goes on to recycle the nil reference.
Release_NoNilCheck(t) ==
    /\ pc[t] = "Release"
    /\ IF obj[t] = Nil
       THEN /\ Goto(t, "returnToPool")
            /\ UNCHANGED <<count, obj>>
       ELSE /\ count' = addRef(count, obj[t], -1)
            /\ IF count'[obj[t]] = 0
               THEN /\ Goto(t, "returnToPool")
                    /\ UNCHANGED obj
               ELSE /\ Goto(t, "idle")
                    /\ obj' = [obj EXCEPT ![t] = Nil]
    /\ UNCHANGED <<alloc, internal, Recycled, contVars, muVars, cont, r, newObj, oldObj, owned, with>>

\* Mutant: Release checks the count first and refuses to bring it below 0.
Release_Checked(t) ==
    /\ pc[t] = "Release"
    /\ IF obj[t] = Nil \/ count[obj[t]] <= 0
       THEN /\ Goto(t, "idle")
            /\ obj' = [obj EXCEPT ![t] = Nil]
            /\ UNCHANGED count
       ELSE /\ count' = addRef(count, obj[t], -1)
            /\ IF count'[obj[t]] = 0
               THEN /\ Goto(t, "returnToPool")
                    /\ UNCHANGED obj
               ELSE /\ Goto(t, "idle")
                    /\ obj' = [obj EXCEPT ![t] = Nil]
    /\ UNCHANGED <<alloc, internal, Recycled, contVars, muVars, cont, r, newObj, oldObj, owned, with>>

\* Mutant: Release tests the decremented count with <= 1 and not with == 0.
Release_LooseTest(t) ==
    /\ pc[t] = "Release"
    /\ IF obj[t] = Nil
       THEN /\ Goto(t, "idle")
            /\ UNCHANGED <<count, obj>>
       ELSE /\ count' = addRef(count, obj[t], -1)
            /\ IF count'[obj[t]] <= 1
               THEN /\ Goto(t, "returnToPool")
                    /\ UNCHANGED obj
               ELSE /\ Goto(t, "idle")
                    /\ obj' = [obj EXCEPT ![t] = Nil]
    /\ UNCHANGED <<alloc, internal, Recycled, contVars, muVars, cont, r, newObj, oldObj, owned, with>>

\* if obj == nil { return }; if obj.addRef(-1) == 0 { p.returnToPool(obj) }
Release(t) ==
    /\ pc[t] = "Release"
    /\ IF obj[t] = Nil
       THEN /\ Goto(t, "idle")
            /\ UNCHANGED <<count, obj>>
       ELSE /\ count' = addRef(count, obj[t], -1)
            /\ IF count'[obj[t]] = 0
               THEN /\ Goto(t, "returnToPool")
                    /\ UNCHANGED obj
               ELSE /\ Goto(t, "idle")
                    /\ obj' = [obj EXCEPT ![t] = Nil]
    /\ UNCHANGED <<alloc, internal, Recycled, contVars, muVars, cont, r, newObj, oldObj, owned, with>>

\* Mutant: returnToPool puts the payload back without calling Reset.
ReturnToPool_NoReset(t) ==
    /\ pc[t] = "returnToPool"
    /\ Goto(t, "Put")
    /\ UNCHANGED <<objVars, contVars, muVars, locals, owned, with>>

\* Mutant: returnToPool ignores the answer of Reset and puts the payload back
\* either way.
ReturnToPool_PutAnyway(t) ==
    /\ pc[t] = "returnToPool"
    /\ Recycled' = [Recycled EXCEPT ![obj[t]] = TRUE]
    /\ \E reusable \in BOOLEAN :
        IF reusable
        THEN /\ Goto(t, "Put")
             /\ UNCHANGED <<obj, internal>>
        ELSE /\ internal' = [internal EXCEPT ![obj[t]] = @ + 1]
             /\ Goto(t, "idle")
             /\ obj' = [obj EXCEPT ![t] = Nil]
    /\ UNCHANGED <<count, alloc, contVars, muVars, cont, r, newObj, oldObj, owned, with>>

\* if p.Reset(obj) { ... }: the resetter is the caller's; it clears the payload
\* (obj.Recycled.Store(true)) and answers either way.
ReturnToPool(t) ==
    /\ pc[t] = "returnToPool"
    /\ Recycled' = [Recycled EXCEPT ![obj[t]] = TRUE]
    /\ \E reusable \in BOOLEAN :
        IF reusable
        THEN /\ Goto(t, "Put")
             /\ UNCHANGED obj
        ELSE /\ Goto(t, "idle")
             /\ obj' = [obj EXCEPT ![t] = Nil]
    /\ UNCHANGED <<count, alloc, internal, contVars, muVars, cont, r, newObj, oldObj, owned, with>>

\* Mutant: returnToPool puts the payload back twice.
Put_Twice(t) ==
    /\ pc[t] = "Put"
    /\ internal' = [internal EXCEPT ![obj[t]] = @ + 2]
    /\ Goto(t, "idle")
    /\ obj' = [obj EXCEPT ![t] = Nil]
    /\ UNCHANGED <<count, alloc, Recycled, contVars, muVars, cont, r, newObj, oldObj, owned, with>>

\* p.internal.Put(obj)
Put(t) ==
    /\ pc[t] = "Put"
    /\ internal' = [internal EXCEPT ![obj[t]] = @ + 1]
    /\ Goto(t, "idle")
    /\ obj' = [obj EXCEPT ![t] = Nil]
    /\ UNCHANGED <<count, alloc, Recycled, contVars, muVars, cont, r, newObj, oldObj, owned, with>>

\* sync.Pool drops stored items at garbage collections.
PoolDrop ==
    /\ \E o \in Obj :
        /\ internal[o] > 0
        /\ internal' = [internal EXCEPT ![o] = @ - 1]
    /\ UNCHANGED <<count, alloc, Recycled, contVars, muVars, pc, locals, owned, with>>

\* ---------------------------------------------------------------- constructors
NewEmptyContainer(c) ==
    /\ NextContainer(c)
    /\ made' = [made EXCEPT ![c] = "NewEmptyContainer"]
    /\ current' = [current EXCEPT ![c] = Nil]
    /\ UNCHANGED <<objVars, updated, muVars, pc, locals, owned, with>>

\* Mutant: NewContainer installs init with the count it came with.
NewContainer_KeepCount(t, c, init) ==
    /\ NextContainer(c)
    /\ pc[t] = "idle"
    /\ CanCall(t)
    /\ init \in Publishable(t) \cup Unallocated
    /\ alloc' = IF init # Nil THEN [alloc EXCEPT ![init] = TRUE] ELSE alloc
    /\ Recycled' = Fill(Recycled, init)
    /\ made' = [made EXCEPT ![c] = "NewContainer"]
    /\ current' = [current EXCEPT ![c] = init]
    /\ fresh' = IF init = fresh[t] THEN [fresh EXCEPT ![t] = Nil] ELSE fresh
    /\ UNCHANGED <<count, internal, updated, muVars, pc, locals, held, with>>

\* if init != nil { init.setRef(1) }; current: init
\* init is the payload the caller owns from Get, a payload the caller has
\* allocated itself (its count is the zero value), or nil.
NewContainer(t, c, init) ==
    /\ NextContainer(c)
    /\ pc[t] = "idle"
    /\ CanCall(t)
    /\ init \in Publishable(t) \cup Unallocated
    /\ alloc' = IF init # Nil THEN [alloc EXCEPT ![init] = TRUE] ELSE alloc
    /\ count' = IF init # Nil THEN setRef(count, init, 1) ELSE count
    /\ Recycled' = Fill(Recycled, init)
    /\ made' = [made EXCEPT ![c] = "NewContainer"]
    /\ current' = [current EXCEPT ![c] = init]
    /\ fresh' = IF init = fresh[t] THEN [fresh EXCEPT ![t] = Nil] ELSE fresh
    /\ UNCHANGED <<internal, updated, muVars, pc, locals, held, with>>

\* ---------------------------------------------------------------- Container.Update
\* A call c.Update(o): the caller hands over the payload it publishes.
CallUpdate(t, c, o) ==
    /\ pc[t] = "idle"
    /\ CanCall(t)
    /\ live(c)
    /\ o \in Publishable(t)
    /\ cont' = [cont EXCEPT ![t] = c]
    /\ newObj' = [newObj EXCEPT ![t] = o]
    /\ fresh' = IF o # Nil THEN [fresh EXCEPT ![t] = Nil] ELSE fresh
    /\ updated' = [updated EXCEPT ![c] = TRUE]
    /\ Recycled' = Fill(Recycled, o)
    /\ Goto(t, "Update_Lock")
    /\ UNCHANGED <<count, alloc, internal, made, current, muVars, obj, r, oldObj, held, with>>

\* Mutant: Lock does not wait for the readers to leave.
UpdateLock_IgnoreReaders(t) ==
    /\ pc[t] = "Update_Lock"
    /\ writer[cont[t]] = Nil
    /\ writer' = [writer EXCEPT ![cont[t]] = t]
    /\ Goto(t, "Update_read")
    /\ UNCHANGED <<objVars, contVars, readers, locals, owned, with>>

\* c.mu.Lock(), first half: once no other writer has the lock or is ahead in
\* Lock, the writer announces itself; from then on RLock holds back new readers.
UpdateLock(t) ==
    /\ pc[t] = "Update_Lock"
    /\ writer[cont[t]] = Nil
    /\ writer' = [writer EXCEPT ![cont[t]] = t]
    /\ Goto(t, "Update_Lock_wait")
    /\ UNCHANGED <<objVars, contVars, readers, locals, owned, with>>

\* c.mu.Lock(), second half: the writer has the lock when the readers that
\* held it have left.
UpdateLockWait(t) ==
    /\ pc[t] = "Update_Lock_wait"
    /\ readers[cont[t]] = {}
    /\ Goto(t, "Update_read")
    /\ UNCHANGED <<objVars, contVars, muVars, locals, owned, with>>

\* oldObj := c.current
UpdateRead(t) ==
    /\ pc[t] = "Update_read"
    /\ oldObj' = [oldObj EXCEPT ![t] = current[cont[t]]]
    /\ Goto(t, "Update_store")
    /\ UNCHANGED <<objVars, contVars, muVars, cont, obj, r, newObj, owned, with>>

\* Mutant: Update counts the Container as a new holder of the payload it installs.
UpdateStore_AddRef(t) ==
    /\ pc[t] = "Update_store"
    /\ current' = [current EXCEPT ![cont[t]] = newObj[t]]
    /\ count' = IF newObj[t] # Nil THEN addRef(count, newObj[t], 1) ELSE count
    /\ Goto(t, "Update_unlock")
    /\ UNCHANGED <<alloc, internal, Recycled, made, updated, muVars, cont, obj, r, newObj, oldObj, owned, with>>

\* c.current = newObj
UpdateStore(t) ==
    /\ pc[t] = "Update_store"
    /\ current' = [current EXCEPT ![cont[t]] = newObj[t]]
    /\ Goto(t, "Update_unlock")
    /\ UNCHANGED <<objVars, made, updated, muVars, cont, obj, r, newObj, oldObj, owned, with>>

\* Mutant: Update releases the payload it has just installed.
UpdateUnlock_ReleaseNew(t) ==
    /\ pc[t] = "Update_unlock"
    /\ writer' = [writer EXCEPT ![cont[t]] = Nil]
    /\ cont' = [cont EXCEPT ![t] = Nil]
    /\ oldObj' = [oldObj EXCEPT ![t] = Nil]
    /\ newObj' = [newObj EXCEPT ![t] = Nil]
    /\ IF current[cont[t]] # Nil
       THEN /\ obj' = [obj EXCEPT ![t] = current[cont[t]]]
            /\ Goto(t, "Release")
       ELSE /\ UNCHANGED obj
            /\ Goto(t, "idle")
    /\ UNCHANGED <<objVars, contVars, readers, r, owned, with>>

\* Mutant: Update forgets to release the payload it swapped out.
UpdateUnlock_NoRelease(t) ==
    /\ pc[t] = "Update_unlock"
    /\ writer' = [writer EXCEPT ![cont[t]] = Nil]
    /\ cont' = [cont EXCEPT ![t] = Nil]
    /\ oldObj' = [oldObj EXCEPT ![t] = Nil]
    /\ newObj' = [newObj EXCEPT ![t] = Nil]
    /\ Goto(t, "idle")
    /\ UNCHANGED <<objVars, contVars, readers, obj, r, owned, with>>

\* Mutant: Update goes on to Release without unlocking.
UpdateUnlock_KeepLock(t) ==
    /\ pc[t] = "Update_unlock"
    /\ cont' = [cont EXCEPT ![t] = Nil]
    /\ oldObj' = [oldObj EXCEPT ![t] = Nil]
    /\ newObj' = [newObj EXCEPT ![t] = Nil]
    /\ IF oldObj[t] # Nil
       THEN /\ obj' = [obj EXCEPT ![t] = oldObj[t]]
            /\ Goto(t, "Release")
       ELSE /\ UNCHANGED obj
            /\ Goto(t, "idle")
    /\ UNCHANGED <<objVars, contVars, muVars, r, owned, with>>

\* c.mu.Unlock(); if oldObj != nil { c.pool.Release(oldObj) }
UpdateUnlock(t) ==
    /\ pc[t] = "Update_unlock"
    /\ writer' = [writer EXCEPT ![cont[t]] = Nil]
    /\ cont' = [cont EXCEPT ![t] = Nil]
    /\ oldObj' = [oldObj EXCEPT ![t] = Nil]
    /\ newObj' = [newObj EXCEPT ![t] = Nil]
    /\ IF oldObj[t] # Nil
       THEN /\ obj' = [obj EXCEPT ![t] = oldObj[t]]
            /\ Goto(t, "Release")
       ELSE /\ UNCHANGED obj
            /\ Goto(t, "idle")
    /\ UNCHANGED <<objVars, contVars, readers, r, owned, with>>

\* ---------------------------------------------------------------- Container.Acquire
\* A call c.Acquire().
CallAcquire(t, c) ==
    /\ pc[t] = "idle"
    /\ CanCall(t)
    /\ live(c)
    /\ HeldTotal(t) < MaxHeld
    /\ cont' = [cont EXCEPT ![t] = c]
    /\ Goto(t, "Acquire_RLock")
    /\ UNCHANGED <<objVars, contVars, muVars, obj, r, newObj, oldObj, owned, with>>

\* Mutant: Acquire reads and increments without taking the read lock.
AcquireRLock_Unlocked(t) ==
    /\ pc[t] = "Acquire_RLock"
    /\ Goto(t, "Acquire_read")
    /\ UNCHANGED <<objVars, contVars, muVars, locals, owned, with>>

\* Mutant: RLock lets the reader in while a writer has the lock.
AcquireRLock_IgnoreWriter(t) ==
    /\ pc[t] = "Acquire_RLock"
    /\ readers' = [readers EXCEPT ![cont[t]] = @ \cup {t}]
    /\ Goto(t, "Acquire_read")
    /\ UNCHANGED <<objVars, contVars, writer, locals, owned, with>>

\* c.mu.RLock(): granted when no writer holds the lock or waits for it in Lock.
AcquireRLock(t) ==
    /\ pc[t] = "Acquire_RLock"
    /\ writer[cont[t]] = Nil
    /\ readers' = [readers EXCEPT ![cont[t]] = @ \cup {t}]
    /\ Goto(t, "Acquire_read")
    /\ UNCHANGED <<objVars, contVars, writer, locals, owned, with>>

\* Mutant: Acquire has no nil check and increments whatever it read.
AcquireRead_NoNilCheck(t) ==
    /\ pc[t] = "Acquire_read"
    /\ obj' = [obj EXCEPT ![t] = current[cont[t]]]
    /\ Goto(t, "Acquire_addRef")
    /\ UNCHANGED <<objVars, contVars, muVars, cont, r, newObj, oldObj, owned, with>>

\* Mutant: Acquire unlocks right after reading the pointer and increments
\* outside the critical section.
AcquireRead_EarlyRUnlock(t) ==
    /\ pc[t] = "Acquire_read"
    /\ obj' = [obj EXCEPT ![t] = current[cont[t]]]
    /\ readers' = [readers EXCEPT ![cont[t]] = @ \ {t}]
    /\ Goto(t, IF current[cont[t]] # Nil THEN "Acquire_addRef" ELSE "Acquire_RUnlock")
    /\ UNCHANGED <<objVars, contVars, writer, cont, r, newObj, oldObj, owned, with>>

\* obj := c.current; if obj != nil
AcquireRead(t) ==
    /\ pc[t] = "Acquire_read"
    /\ obj' = [obj EXCEPT ![t] = current[cont[t]]]
    /\ Goto(t, IF current[cont[t]] # Nil THEN "Acquire_addRef" ELSE "Acquire_RUnlock")
    /\ UNCHANGED <<objVars, contVars, muVars, cont, r, newObj, oldObj, owned, with>>

\* Mutant: Acquire returns the payload without counting the new holder.
AcquireAddRef_Skip(t) ==
    /\ pc[t] = "Acquire_addRef"
    /\ Goto(t, "Acquire_RUnlock")
    /\ UNCHANGED <<objVars, contVars, muVars, locals, owned, with>>

\* obj.addRef(1)
AcquireAddRef(t) ==
    /\ pc[t] = "Acquire_addRef"
    /\ count' = addRef(count, obj[t], 1)
    /\ Goto(t, "Acquire_RUnlock")
    /\ UNCHANGED <<alloc, internal, Recycled, contVars, muVars, locals, owned, with>>

\* Mutant: Acquire returns without RUnlock, keeping the read lock for as long
\* as the caller holds the payload.
AcquireRUnlock_KeepLock(t) ==
    /\ pc[t] = "Acquire_RUnlock"
    /\ held' = IF obj[t] # Nil THEN [held EXCEPT ![t][obj[t]] = @ + 1] ELSE held
    /\ cont' = [cont EXCEPT ![t] = Nil]
    /\ obj' = [obj EXCEPT ![t] = Nil]
    /\ Goto(t, "idle")
    /\ IF wa[t] = "Acquire"
       THEN /\ wa' = [wa EXCEPT ![t] = "fn"]
            /\ waObj' = [waObj EXCEPT ![t] = obj[t]]
       ELSE UNCHANGED <<wa, waObj>>
    /\ UNCHANGED <<objVars, contVars, muVars, r, newObj, oldObj, fresh, misuse>>

\* c.mu.RUnlock(); return obj
AcquireRUnlock(t) ==
    /\ pc[t] = "Acquire_RUnlock"
    /\ readers' = [readers EXCEPT ![cont[t]] = @ \ {t}]
    /\ held' = IF obj[t] # Nil THEN [held EXCEPT ![t][obj[t]] = @ + 1] ELSE held
    /\ cont' = [cont EXCEPT ![t] = Nil]
    /\ obj' = [obj EXCEPT ![t] = Nil]
    /\ Goto(t, "idle")
    /\ IF wa[t] = "Acquire"
       THEN /\ wa' = [wa EXCEPT ![t] = "fn"]
            /\ waObj' = [waObj EXCEPT ![t] = obj[t]]
       ELSE UNCHANGED <<wa, waObj>>
    /\ UNCHANGED <<objVars, contVars, writer, r, newObj, oldObj, fresh, misuse>>

\* ---------------------------------------------------------------- Container.WithAcquire
\* obj := c.Acquire()
CallWithAcquire(t, c) ==
    /\ pc[t] = "idle"
    /\ wa[t] = "no"
    /\ live(c)
    /\ HeldTotal(t) < MaxHeld
    /\ cont' = [cont EXCEPT ![t] = c]
    /\ wa' = [wa EXCEPT ![t] = "Acquire"]
    /\ Goto(t, "Acquire_RLock")
    /\ UNCHANGED <<objVars, contVars, muVars, obj, r, newObj, oldObj, owned, waObj, misuse>>

\* Mutant: WithAcquire calls Release after fn instead of deferring it, so a
\* panic in fn skips it.
FnEnds_NoDefer(t, panics) ==
    /\ pc[t] = "idle"
    /\ wa[t] = "fn"
    /\ IF waObj[t] # Nil /\ ~panics
       THEN /\ held' = [held EXCEPT ![t][waObj[t]] = @ - 1]
            /\ obj' = [obj EXCEPT ![t] = waObj[t]]
            /\ Goto(t, "Release")
            /\ wa' = [wa EXCEPT ![t] = "defer"]
            /\ UNCHANGED waObj
       ELSE /\ wa' = [wa EXCEPT ![t] = "no"]
            /\ waObj' = [waObj EXCEPT ![t] = Nil]
            /\ UNCHANGED <<held, obj, pc>>
    /\ UNCHANGED <<objVars, contVars, muVars, cont, r, newObj, oldObj, fresh, misuse>>

\* fn(obj) ends, by returning (panics = FALSE) or by panicking; the deferred
\* c.Release(obj), registered if obj != nil, runs either way.
FnEnds(t, panics) ==
    /\ pc[t] = "idle"
    /\ wa[t] = "fn"
    /\ IF waObj[t] # Nil
       THEN /\ held' = [held EXCEPT ![t][waObj[t]] = @ - 1]
            /\ obj' = [obj EXCEPT ![t] = waObj[t]]
            /\ Goto(t, "Release")
            /\ wa' = [wa EXCEPT ![t] = IF panics THEN "panic" ELSE "defer"]
       ELSE /\ wa' = [wa EXCEPT ![t] = "no"]
            /\ UNCHANGED <<held, obj, pc>>
    /\ UNCHANGED <<objVars, contVars, muVars, cont, r, newObj, oldObj, fresh, waObj, misuse>>

\* The deferred Release has returned: WithAcquire returns, or the panic goes on
\* to the caller.
WithAcquireReturn(t) ==
    /\ pc[t] = "idle"
    /\ wa[t] \in {"defer", "panic"}
    /\ wa' = [wa EXCEPT ![t] = "no"]
    /\ waObj' = [waObj EXCEPT ![t] = Nil]
    /\ UNCHANGED <<objVars, contVars, muVars, pc, locals, owned, misuse>>

\* ---------------------------------------------------------------- the program
Next ==
    \/ \E t \in Thread : GetInternal(t)
    \/ \E t \in Thread : GetSetRef(t)
    \/ \E t \in Thread : \E o \in Obj \cup {Nil} : CallPoolRelease(t, o)
    \/ \E t \in Thread : \E c \in Cont : \E o \in Obj \cup {Nil} : CallContainerRelease(t, c, o)
    \/ \E t \in Thread : Release(t)
    \/ \E t \in Thread : ReturnToPool(t)
    \/ \E t \in Thread : Put(t)
    \/ PoolDrop
    \/ \E c \in Cont : NewEmptyContainer(c)
    \/ \E t \in Thread : \E c \in Cont : \E o \in Obj \cup {Nil} : NewContainer(t, c, o)
    \/ \E t \in Thread : \E c \in Cont : \E o \in Obj \cup {Nil} : CallUpdate(t, c, o)
    \/ \E t \in Thread : UpdateLock(t)
    \/ \E t \in Thread : UpdateLockWait(t)
    \/ \E t \in Thread : UpdateRead(t)
    \/ \E t \in Thread : UpdateStore(t)
    \/ \E t \in Thread : UpdateUnlock(t)
    \/ \E t \in Thread : \E c \in Cont : CallAcquire(t, c)
    \/ \E t \in Thread : AcquireRLock(t)
    \/ \E t \in Thread : AcquireRead(t)
    \/ \E t \in Thread : AcquireAddRef(t)
    \/ \E t \in Thread : AcquireRUnlock(t)

Spec == Init /\ [][Next]_vars

\* ---------------------------------------------------------------- writer and readers
\* TestStress_NoUseAfterFree: on one Container built by NewEmptyContainer,
\* goroutine 1 is the writer, which loops Update(GetNew()); every other
\* goroutine is a reader, which loops Acquire ... Release, on its own or
\* through WithAcquire.
Writer == 1
Reader == Thread \ {Writer}

WriterStep ==
    \/ live(1) /\ GetInternal(Writer)
    \/ GetSetRef(Writer)
    \/ fresh[Writer] # Nil /\ CallUpdate(Writer, 1, fresh[Writer])
    \/ UpdateLock(Writer)
    \/ UpdateLockWait(Writer)
    \/ UpdateRead(Writer)
    \/ UpdateStore(Writer)
    \/ UpdateUnlock(Writer)

ReaderStep(t) ==
    \/ CallAcquire(t, 1)
    \/ CallWithAcquire(t, 1)
    \/ AcquireRLock(t)
    \/ AcquireRead(t)
    \/ AcquireAddRef(t)
    \/ AcquireRUnlock(t)
    \/ \E panics \in BOOLEAN : FnEnds(t, panics)
    \/ WithAcquireReturn(t)
    \/ \E o \in Obj : CallContainerRelease(t, 1, o)

StressNext ==
    \/ NewEmptyContainer(1)
    \/ WriterStep
    \/ \E t \in Reader : ReaderStep(t)
    \/ \E t \in Thread : Release(t)
    \/ \E t \in Thread : ReturnToPool(t)
    \/ \E t \in Thread : Put(t)
    \/ PoolDrop

StressSpec == Init /\ [][StressNext]_vars

\* The steps a goroutine takes on its own once it is scheduled: everything in
\* an operation but the two lock acquisitions and the caller's fn; a writer
\* that has announced itself goes on as soon as the last reader has left.
Progress(t) ==
    \/ GetSetRef(t)
    \/ UpdateLockWait(t)
    \/ UpdateRead(t)
    \/ UpdateStore(t)
    \/ UpdateUnlock(t)
    \/ AcquireRead(t)
    \/ AcquireAddRef(t)
    \/ AcquireRUnlock(t)
    \/ Release(t)
    \/ ReturnToPool(t)
    \/ Put(t)
    \/ WithAcquireReturn(t)

\* Fair scheduling: a goroutine that can take a step takes it; sync.RWMutex
\* starves neither a writer entering Lock nor a reader in RLock (writers queue
\* on a mutex, an Unlock lets the waiting RLocks in first); the fn given to
\* WithAcquire ends.
Fairness ==
    \A t \in Thread :
        /\ WF_vars(Progress(t))
        /\ SF_vars(UpdateLock(t))
        /\ SF_vars(AcquireRLock(t))
        /\ SF_vars(\E panics \in BOOLEAN : FnEnds(t, panics))

FairSpec == StressSpec /\ Fairness

\* Every holder eventually releases: a reader that keeps a reference from
\* Acquire calls Release on it.
HoldersRelease ==
    \A t \in Reader : \A o \in Obj : SF_vars(CallContainerRelease(t, 1, o))

ReleasingSpec == FairSpec /\ HoldersRelease

\* The writer-and-readers run in which a reader also swaps the payload from
\* inside the fn it passed to WithAcquire: Update(GetNew()) while fn runs.
FnStep(t) ==
    \/ wa[t] = "fn" /\ GetInternal(t)
    \/ GetSetRef(t)
    \/ wa[t] = "fn" /\ fresh[t] # Nil /\ CallUpdate(t, 1, fresh[t])
    \/ UpdateLock(t)
    \/ UpdateLockWait(t)
    \/ UpdateRead(t)
    \/ UpdateStore(t)
    \/ UpdateUnlock(t)

NestedNext ==
    \/ StressNext
    \/ \E t \in Reader : FnStep(t)

NestedSpec == Init /\ [][NestedNext]_vars

FairNestedSpec == NestedSpec /\ Fairness

\* ---------------------------------------------------------------- properties
IsCurrent(o) == \E c \in Cont : live(c) /\ current[c] = o

\* The resetter is being invoked on o, or has just returned for it.
BeingReset(o) == \E t \in Thread : pc[t] \in {"returnToPool", "Put"} /\ obj[t] = o

\* Pool.Get is handing o out, or has handed it out to a goroutine that still owns it.
HandedOut(o) == \E t \in Thread : (pc[t] = "Get_setRef" /\ r[t] = o) \/ fresh[t] = o

HeldBy(t, o) == held[t][o] > 0

\* C1: no recycle-while-held. While a goroutine holds a payload from an Acquire
\* it has not yet released, the resetter is not invoked on that payload and
\* Pool.Get does not hand it out.
C1_NoRecycleWhileHeld ==
    \A o \in Obj : \A u \in Thread :
        HeldBy(u, o) => ~BeingReset(o) /\ ~HandedOut(o)

\* A reader still holds a superseded payload whose count the writer's Release
\* has brought down to the reader's own reference, while another payload is
\* being reset.
C1_Witness ==
    \E o \in Obj : \E u \in Thread :
        /\ HeldBy(u, o)
        /\ ~IsCurrent(o)
        /\ count[o] = 1
        /\ \E t \in Thread : t # u /\ pc[t] = "returnToPool"

\* C2: count non-negativity. In every reachable state every payload's
\* reference count is >= 0.
C2_CountNonNegative == \A o \in Obj : count[o] >= 0

\* A Release has brought a count down to 0 while another payload is shared.
C2_Witness ==
    \E t \in Thread : \E o \in Obj :
        /\ pc[t] = "returnToPool"
        /\ count[obj[t]] = 0
        /\ count[o] >= 2

\* C3: Container-as-holder. A payload in a Container's current slot has a
\* count of at least 1, is not being reset and is not in the Pool.
C3_ContainerHolds ==
    \A c \in Cont :
        live(c) /\ current[c] # Nil =>
            /\ count[current[c]] >= 1
            /\ ~BeingReset(current[c])
            /\ internal[current[c]] = 0

\* The Container alone holds its current payload while the payload it
\* superseded is being reset.
C3_Witness ==
    \E c \in Cont :
        /\ live(c)
        /\ current[c] # Nil
        /\ count[current[c]] = 1
        /\ \E t \in Thread : pc[t] = "returnToPool"

\* C4: Update atomicity with respect to Acquire. From its read of the current
\* slot to its return, the payload an Acquire is about to return is the one in
\* the current slot (no Update swaps it in between), and it is neither in
\* the Pool nor being reset; and once an Update has stored, the current slot
\* holds the payload that Update was given until the Update unlocks.
C4_AcquireReturnsCurrent ==
    /\ \A t \in Thread :
        pc[t] \in {"Acquire_addRef", "Acquire_RUnlock"} =>
            /\ obj[t] = current[cont[t]]
            /\ obj[t] # Nil => internal[obj[t]] = 0 /\ ~BeingReset(obj[t])
    /\ \A t \in Thread :
        pc[t] = "Update_unlock" => current[cont[t]] = newObj[t]

\* An Acquire is about to return the payload of the last Update while the
\* payload that Update superseded is already back in the Pool.
C4_Witness ==
    \E t \in Thread : \E o \in Obj :
        /\ pc[t] = "Acquire_RUnlock"
        /\ obj[t] # Nil
        /\ updated[cont[t]]
        /\ o # obj[t]
        /\ internal[o] > 0

\* ---------------------------------------------------------------- one caller
\* TestProp_SequentialLogic: one goroutine on one Container built by
\* NewEmptyContainer, running the operations Update(GetNew()), Acquire and
\* Release of a held reference, one after the other.
SeqNext ==
    \/ NewEmptyContainer(1)
    \/ live(1) /\ GetInternal(1)
    \/ GetSetRef(1)
    \/ fresh[1] # Nil /\ CallUpdate(1, 1, fresh[1])
    \/ UpdateLock(1)
    \/ UpdateLockWait(1)
    \/ UpdateRead(1)
    \/ UpdateStore(1)
    \/ UpdateUnlock(1)
    \/ fresh[1] = Nil /\ CallAcquire(1, 1)
    \/ AcquireRLock(1)
    \/ AcquireRead(1)
    \/ AcquireAddRef(1)
    \/ AcquireRUnlock(1)
    \/ \E o \in Obj : fresh[1] = Nil /\ HeldBy(1, o) /\ CallContainerRelease(1, 1, o)
    \/ Release(1)
    \/ ReturnToPool(1)
    \/ Put(1)
    \/ PoolDrop

SeqSpec == Init /\ [][SeqNext]_vars

\* ---------------------------------------------------------------- misuse
\* A call c.Release(o) on a payload the caller has no reference to any more:
\* a Release too many.
OverRelease(t, c, o) ==
    /\ pc[t] = "idle"
    /\ live(c)
    /\ misuse < MaxMisuse
    /\ alloc[o]
    /\ o \notin Releasable(t)
    /\ misuse' = misuse + 1
    /\ obj' = [obj EXCEPT ![t] = o]
    /\ Goto(t, "Release")
    /\ UNCHANGED <<objVars, contVars, muVars, cont, r, newObj, oldObj, owned, wa, waObj>>

\* Once a payload is over-released, its count and its copies in the pool can
\* drift without limit; a run is followed until one of them passes MaxMisuse.
Drifted == \E o \in Obj : count[o] < -MaxMisuse \/ internal[o] > MaxMisuse

\* The sequential run, by a caller that over-releases.
MisuseNext ==
    \/ ~Drifted /\ SeqNext
    \/ \E o \in Obj : ~Drifted /\ OverRelease(1, 1, o)

MisuseSpec == Init /\ [][MisuseNext]_vars

\* C5: exact reference accounting. Between the operations of a sequential run,
\* every payload that still has a holder has a count of 1 if it is the
\* Container's current payload (else 0) plus the number of Acquire results of
\* it that have not been released.
C5_ExactAccounting ==
    pc[1] = "idle" /\ fresh[1] = Nil =>
        \A o \in Obj :
            IsCurrent(o) \/ HeldBy(1, o) =>
                count[o] = (IF IsCurrent(o) THEN 1 ELSE 0) + held[1][o]

\* Between two operations, a superseded payload is still held twice and
\* another payload is current.
C5_Witness ==
    /\ pc[1] = "idle"
    /\ fresh[1] = Nil
    /\ \E o \in Obj : held[1][o] = 2 /\ ~IsCurrent(o) /\ count[o] = 2
    /\ current[1] # Nil

\* The references to o that Acquire has counted and Release has not yet
\* subtracted: held by a goroutine, about to be returned by an Acquire that has
\* incremented, or passed to a Release that has not decremented yet.
Outstanding(o) ==
    LET H[n \in 0..NumThreads] == IF n = 0 THEN 0 ELSE H[n - 1] + held[n][o]
    IN  H[NumThreads]
        + Cardinality({t \in Thread : pc[t] = "Acquire_RUnlock" /\ obj[t] = o})
        + Cardinality({t \in Thread : pc[t] = "Release" /\ obj[t] = o})

\* C6: balanced acquire/release. Over every step during which no Update is at
\* work on a Container, the count of its current payload moves exactly with
\* the number of outstanding acquired references (so it is back at its earlier
\* value once every Acquire has been matched by its Release), and the
\* resetter is not invoked on it.
C6_Balanced ==
    [][\A c \in Cont :
          (/\ live(c)
           /\ current[c] # Nil
           /\ current'[c] = current[c]
           /\ writer[c] = Nil
           /\ writer'[c] = Nil)
          => /\ count'[current[c]] - Outstanding(current[c])'
                    = count[current[c]] - Outstanding(current[c])
             /\ ~BeingReset(current[c])']_vars

\* Two goroutines hold the current payload, one of them also through a
\* Release it has called and that has not yet decremented; no Update is at work.
C6_Witness ==
    \E c \in Cont : \E t, u \in Thread :
        /\ t # u
        /\ live(c)
        /\ current[c] # Nil
        /\ writer[c] = Nil
        /\ pc[t] = "Release"
        /\ obj[t] = current[c]
        /\ HeldBy(u, current[c])
        /\ count[current[c]] = 1 + Outstanding(current[c])
        /\ Outstanding(current[c]) >= 2

\* C7: Get returns an exclusively owned payload with count 1. The payload a
\* goroutine owns from Get has count 1, is not current in any Container, is
\* not in the Pool, is held by no goroutine and is owned by no other caller
\* of Get; two Gets in progress never have the same instance.
C7_GetExclusive ==
    /\ \A t \in Thread :
        fresh[t] # Nil =>
            /\ count[fresh[t]] = 1
            /\ ~IsCurrent(fresh[t])
            /\ internal[fresh[t]] = 0
            /\ ~BeingReset(fresh[t])
            /\ \A u \in Thread :
                /\ ~HeldBy(u, fresh[t])
                /\ u # t => fresh[u] # fresh[t] /\ r[u] # fresh[t]
                /\ obj[u] # fresh[t] /\ newObj[u] # fresh[t] /\ oldObj[u] # fresh[t]
    /\ \A t, u \in Thread :
        t # u /\ pc[t] = "Get_setRef" /\ pc[u] = "Get_setRef" => r[t] # r[u]

\* Both goroutines own a payload from Get, one of them a reused instance (the
\* resetter has run on payload 1, so it has been through the Pool), while the
\* payload allocated last is current.
C7_Witness ==
    /\ fresh[1] = 1
    /\ fresh[2] = 2
    /\ current[1] = 3
    /\ Recycled[1]

\* C8: Release of a non-empty payload decrements its count by exactly 1 and
\* goes on to the resetter if and only if the result is 0; when the result is
\* not 0 it returns and nothing else changes.
C8_ReleaseStep ==
    [][\A t \in Thread :
          pc[t] = "Release" /\ obj[t] # Nil /\ pc'[t] # "Release" =>
              /\ count' = [count EXCEPT ![obj[t]] = @ - 1]
              /\ pc'[t] = "returnToPool" <=> count'[obj[t]] = 0
              /\ pc'[t] \in {"returnToPool", "idle"}
              /\ count'[obj[t]] # 0 =>
                    /\ pc'[t] = "idle"
                    /\ internal' = internal
                    /\ current' = current]_vars

\* One Release has gone on to the resetter while another is about to
\* decrement a count of at least 2.
C8_Witness ==
    \E t, u \in Thread :
        /\ pc[t] = "returnToPool"
        /\ pc[u] = "Release"
        /\ obj[u] # Nil
        /\ count[obj[u]] >= 2

\* C9: an Acquire on a Container built by NewEmptyContainer and never Updated
\* reads an empty slot, never increments a count and returns empty.
C9_EmptyAcquire ==
    \A t \in Thread :
        /\ cont[t] # Nil
        /\ made[cont[t]] = "NewEmptyContainer"
        /\ ~updated[cont[t]]
        => /\ pc[t] # "Acquire_addRef"
           /\ pc[t] = "Acquire_RUnlock" => obj[t] = Nil

\* An Acquire is about to return on a never-updated Container after a payload
\* has been through Get and Release and while the other goroutine owns one.
C9_Witness ==
    \E t, u \in Thread : \E o \in Obj :
        /\ pc[t] = "Acquire_RUnlock"
        /\ made[cont[t]] = "NewEmptyContainer"
        /\ ~updated[cont[t]]
        /\ fresh[u] # Nil
        /\ internal[o] > 0

\* C10: Release of an empty reference is a no-op: it returns without changing
\* a count, without going on to the resetter, and leaves the Pool and every
\* current slot as they are.
C10_ReleaseNil ==
    [][\A t \in Thread :
          pc[t] = "Release" /\ obj[t] = Nil /\ pc'[t] # "Release" =>
              /\ pc'[t] = "idle"
              /\ count' = count
              /\ internal' = internal
              /\ current' = current]_vars

\* A Release of nil is about to run while a payload is current and shared
\* and another sits in the Pool.
C10_Witness ==
    \E t \in Thread : \E c \in Cont : \E o \in Obj :
        /\ pc[t] = "Release"
        /\ obj[t] = Nil
        /\ current[c] # Nil
        /\ count[current[c]] >= 2
        /\ internal[o] > 0

\* ---------------------------------------------------------------- recycling
\* The step is one of goroutine t: every step moves the goroutine that takes it.
Steps(t) == pc'[t] # pc[t]

\* C11: reuse correctness. When a Release has brought a count to 0 and the
\* resetter answers true, the payload goes into the pool as the resetter left
\* it (and with count 0); every payload in the pool is in that state; and a
\* Get that takes a payload out of the pool returns that instance with count 1
\* and still as the resetter left it.
C11_Reuse ==
    /\ [](\A o \in Obj : internal[o] > 0 => Recycled[o] /\ count[o] = 0)
    /\ [][\A t \in Thread :
            /\ pc[t] = "returnToPool" /\ pc'[t] = "Put" =>
                  /\ count[obj[t]] = 0
                  /\ Recycled'[obj[t]]
                  /\ obj'[t] = obj[t]
            /\ pc[t] = "Put" /\ Steps(t) =>
                  /\ internal' = [internal EXCEPT ![obj[t]] = @ + 1]
                  /\ Recycled'[obj[t]]
                  /\ count'[obj[t]] = 0
            /\ pc[t] = "idle" /\ pc'[t] = "Get_setRef" /\ alloc' = alloc =>
                  /\ internal[r'[t]] > 0
                  /\ Recycled'[r'[t]]
            /\ pc[t] = "Get_setRef" /\ Steps(t) =>
                  /\ fresh'[t] = r[t]
                  /\ count'[r[t]] = 1
                  /\ Recycled' = Recycled]_vars

\* A goroutine owns, with count 1, a payload the resetter has run on (so Get
\* took it out of the pool) while another reset payload sits in the pool.
C11_Witness ==
    \E t \in Thread : \E o \in Obj :
        /\ pc[t] = "idle"
        /\ fresh[t] # Nil
        /\ Recycled[fresh[t]]
        /\ count[fresh[t]] = 1
        /\ internal[o] > 0

\* No Container, no pool, no operation in progress and no caller has a
\* reference to o: the payload is left to the garbage collector. (The
\* reference WithAcquire passes to fn is one the goroutine holds.)
Unreachable(o) ==
    /\ alloc[o]
    /\ internal[o] = 0
    /\ ~IsCurrent(o)
    /\ \A t \in Thread :
        /\ r[t] # o /\ obj[t] # o /\ newObj[t] # o /\ oldObj[t] # o
        /\ fresh[t] # o /\ held[t][o] = 0

\* o has been through the resetter and has not gone back to a holder.
Discarded(o) == Unreachable(o) /\ Recycled[o] /\ count[o] = 0

\* C12: discard correctness. When a Release has brought a count to 0 and the
\* resetter answers false, the payload is not added to the pool and is from
\* then on discarded; and a discarded payload stays discarded in every
\* continuation, so no later Get returns it.
C12_Discard ==
    [][/\ \A t \in Thread :
            pc[t] = "returnToPool" /\ pc'[t] = "idle" =>
                /\ internal' = internal
                /\ \A o \in Obj : o = obj[t] => Discarded(o)'
       /\ \A o \in Obj :
            Discarded(o) =>
                /\ Discarded(o)'
                /\ \A t \in Thread : r'[t] # o /\ fresh'[t] # o]_vars

\* A payload is discarded while a goroutine owns, from a later Get, another
\* payload that has been through the pool.
C12_Witness ==
    \E o \in Obj : \E t \in Thread :
        /\ Discarded(o)
        /\ fresh[t] # Nil
        /\ Recycled[fresh[t]]

\* ---------------------------------------------------------------- factory
\* The step is Get's p.internal.Get() by goroutine t.
GetStep(t) == pc[t] = "idle" /\ pc'[t] = "Get_setRef"

\* The factory has run in the step: it is the only code that allocates a
\* payload inside Get.
FactoryRan == alloc' # alloc

PoolEmpty == \A o \in Obj : internal[o] = 0

\* C13 as stated: Get invokes the factory only when the free list is empty.
C13_FactoryOnlyWhenEmpty ==
    [][\A t \in Thread : GetStep(t) /\ FactoryRan => PoolEmpty]_vars

\* C13, amended: every Get either takes exactly one payload out of the pool
\* and does not invoke the factory, or invokes the factory exactly once and
\* leaves the pool as it is; it invokes the factory whenever the pool is
\* empty (so Gets with no matching Release invoke it once each), and it may
\* invoke it as well while the pool stores payloads.
C13_FactoryOrPool ==
    [][\A t \in Thread :
          GetStep(t) =>
              /\ \/ /\ ~FactoryRan
                    /\ internal[r'[t]] > 0
                    /\ internal' = [internal EXCEPT ![r'[t]] = @ - 1]
                 \/ /\ FactoryRan
                    /\ ~alloc[r'[t]]
                    /\ alloc' = [alloc EXCEPT ![r'[t]] = TRUE]
                    /\ internal' = internal
              /\ PoolEmpty => FactoryRan]_vars

\* A Get has taken a recycled payload out of the pool, which still stores
\* another, while the other goroutine's Get has run the factory.
C13_Witness ==
    \E t, u \in Thread : \E o \in Obj :
        /\ pc[t] = "Get_setRef"
        /\ Recycled[r[t]]
        /\ internal[o] > 0
        /\ pc[u] = "Get_setRef"
        /\ ~Recycled[r[u]]

\* ---------------------------------------------------------------- Container
\* C14: construct with an initial payload. NewContainer(pool, p) with p
\* non-empty leaves p's count at exactly 1, whether p came from Get (count 1)
\* or was allocated by the caller (count 0), and installs p as current; until
\* the first Update an Acquire returns p, with the count at 1 plus the
\* outstanding acquired references: 2 when this Acquire is the only one.
C14_NewContainerInit ==
    /\ [][\A c \in Cont : \A p \in Obj :
            made[c] = "none" /\ made'[c] = "NewContainer" /\ current'[c] = p =>
                /\ count[p] \in {0, 1}
                /\ count' = [count EXCEPT ![p] = 1]]_vars
    /\ [](\A t \in Thread :
            /\ pc[t] = "Acquire_RUnlock"
            /\ made[cont[t]] = "NewContainer"
            /\ ~updated[cont[t]]
            /\ current[cont[t]] # Nil
            => /\ obj[t] = current[cont[t]]
               /\ count[obj[t]] = 1 + Outstanding(obj[t])
               /\ Outstanding(obj[t]) = 1 => count[obj[t]] = 2)

\* An Acquire is about to return, with count 2, the payload NewContainer
\* installed, while the other goroutine owns a payload from Get.
C14_Witness ==
    \E t, u \in Thread :
        /\ pc[t] = "Acquire_RUnlock"
        /\ made[cont[t]] = "NewContainer"
        /\ ~updated[cont[t]]
        /\ obj[t] = 1
        /\ count[obj[t]] = 2
        /\ fresh[u] = 2

InUpdate(t) ==
    pc[t] \in {"Update_Lock", "Update_Lock_wait", "Update_read", "Update_store", "Update_unlock"}

\* C15: Update transfers the Container's hold without touching the new
\* payload's count. No step of Update, from the call to the Unlock, changes a
\* count; the payload handed to Update has count 1 until it is stored and at
\* least 1 afterwards, and is not the payload being swapped out; the store
\* makes it current; and after the Unlock, Update goes on to one Release of
\* the previously current payload if there was one (which decrements it by
\* exactly 1 and resets it at 0), and returns if there was none.
C15_UpdateTransfers ==
    /\ [](\A t \in Thread :
            InUpdate(t) /\ newObj[t] # Nil =>
                /\ count[newObj[t]] >= 1
                /\ pc[t] # "Update_unlock" => count[newObj[t]] = 1
                /\ pc[t] \in {"Update_store", "Update_unlock"} => oldObj[t] # newObj[t])
    /\ [][\A t \in Thread :
            (InUpdate(t) \/ InUpdate(t)') /\ Steps(t) =>
                /\ count' = count
                /\ pc[t] = "Update_read" => oldObj'[t] = current[cont[t]]
                /\ pc[t] = "Update_store" => current'[cont[t]] = newObj[t]
                /\ pc[t] = "Update_unlock" =>
                      IF oldObj[t] # Nil
                      THEN pc'[t] = "Release" /\ obj'[t] = oldObj[t]
                      ELSE pc'[t] = "idle"]_vars

\* An Update has stored a payload whose count is still 1 and is about to
\* unlock and release the payload it swapped out, which readers still hold.
C15_Witness ==
    \E t \in Thread :
        /\ pc[t] = "Update_unlock"
        /\ newObj[t] # Nil
        /\ oldObj[t] # Nil
        /\ count[newObj[t]] = 1
        /\ count[oldObj[t]] >= 3

\* ---------------------------------------------------------------- WithAcquire
\* C16: WithAcquire releases on every exit path. While fn runs on a non-empty
\* payload p the goroutine holds p. When fn ends, by returning or by
\* panicking, WithAcquire goes on to Release(p); it performs no other
\* operation before it returns, and that Release decrements p's count exactly
\* once. When the Acquire returned empty, fn is invoked with the empty
\* argument, and when it ends WithAcquire returns without a Release and
\* without changing a count.
C16_WithAcquireReleases ==
    /\ [](\A t \in Thread :
            /\ wa[t] = "fn" /\ waObj[t] # Nil =>
                  held[t][waObj[t]] >= 1 /\ count[waObj[t]] >= 1
            /\ wa[t] \in {"defer", "panic"} =>
                  /\ waObj[t] # Nil
                  /\ pc[t] \in {"Release", "returnToPool", "Put", "idle"}
                  /\ pc[t] # "idle" => obj[t] = waObj[t])
    /\ [][\A t \in Thread :
            /\ wa[t] = "Acquire" /\ wa'[t] # "Acquire" =>
                  wa'[t] = "fn" /\ waObj'[t] = obj[t] /\ pc'[t] = "idle"
            /\ wa[t] = "fn" /\ wa'[t] # "fn" =>
                  IF waObj[t] # Nil
                  THEN /\ wa'[t] \in {"defer", "panic"}
                       /\ pc'[t] = "Release"
                       /\ obj'[t] = waObj[t]
                       /\ count' = count
                  ELSE /\ wa'[t] = "no"
                       /\ pc'[t] = "idle"
                       /\ count' = count
            /\ wa[t] \in {"defer", "panic"} /\ Steps(t) =>
                  /\ pc[t] # "idle"
                  /\ wa'[t] = wa[t]
                  /\ IF pc[t] = "Release"
                     THEN count' = [count EXCEPT ![waObj[t]] = @ - 1]
                     ELSE count' = count
            /\ wa[t] \in {"defer", "panic"} /\ wa'[t] # wa[t] =>
                  wa'[t] = "no" /\ pc[t] = "idle"]_vars

\* fn has panicked on a payload that an Update swapped out while fn ran: the
\* deferred Release has brought its count to 0 and is about to reset it.
C16_Witness ==
    \E t \in Thread :
        /\ wa[t] = "panic"
        /\ pc[t] = "returnToPool"
        /\ obj[t] = waObj[t]
        /\ count[waObj[t]] = 0

\* ---------------------------------------------------------------- lifecycle
\* An Update has swapped o out: o has been published, is current no more and
\* has not been handed out again by Get. (In the writer-and-readers run every
\* payload Get hands out is published by the Update that follows.)
Superseded(o) ==
    /\ alloc[o]
    /\ ~IsCurrent(o)
    /\ \A t \in Thread : r[t] # o /\ fresh[t] # o /\ newObj[t] # o

\* The holders of a superseded payload: the outstanding acquired references
\* and the Container's own hold, until the Update that swapped the payload out
\* has called Release.
Holders(o) ==
    Outstanding(o) + Cardinality({t \in Thread : pc[t] = "Update_unlock" /\ oldObj[t] = o})

Free(o) == internal[o] > 0

\* C17: reclamation of superseded payloads. A superseded payload's count is
\* the number of its holders; it is in the resetter's hands, Free or Discarded
\* exactly when it has no holder left, so it is reset when its last holder
\* releases it and not before. If every holder eventually releases, a
\* superseded payload eventually becomes Free or Discarded.
C17_Reclamation ==
    /\ [](\A o \in Obj :
            Superseded(o) =>
                /\ count[o] = Holders(o)
                /\ Holders(o) = 0 <=> (BeingReset(o) \/ Free(o) \/ Discarded(o)))
    /\ \A o \in Obj : Superseded(o) ~> (Free(o) \/ Discarded(o))

\* A reader was the last holder of a superseded payload: its Release has
\* brought the count to 0 and is about to reset the payload.
C17_Witness ==
    \E o \in Obj : \E t \in Reader :
        /\ Superseded(o)
        /\ pc[t] = "returnToPool"
        /\ obj[t] = o
        /\ wa[t] = "no"

\* ---------------------------------------------------------------- progress
\* C18: no operation blocks indefinitely. Under fair scheduling, with a
\* resetter and an fn that end, every Get, Release, Acquire and Update that a
\* goroutine has started completes, and so does every WithAcquire; a
\* goroutine waiting for the lock is never left waiting, so readers and
\* writers cannot deadlock.
C18_NoBlocking ==
    \A t \in Thread :
        /\ pc[t] # "idle" ~> pc[t] = "idle"
        /\ wa[t] # "no" ~> wa[t] = "no"

\* The writer has announced itself and waits in Lock for a reader that is
\* inside the Acquire of a WithAcquire and has two steps to go.
C18_Witness ==
    \E t \in Reader :
        /\ pc[Writer] = "Update_Lock_wait"
        /\ t \in readers[1]
        /\ wa[t] = "Acquire"
        /\ pc[t] = "Acquire_addRef"

\* ---------------------------------------------------------------- count 0
HeldBySome(o) == \E t \in Thread : HeldBy(t, o) \/ fresh[t] = o

\* A Get has taken o and has not yet set its count, or a Release has brought
\* the count to 0 and returnToPool has not yet Put or dropped o.
InTransit(o) == (\E t \in Thread : pc[t] = "Get_setRef" /\ r[t] = o) \/ BeingReset(o)

\* C19 as stated: a payload whose count is 0 is not current, not held by a
\* caller, and is either in the pool or discarded.
C19_ZeroIsFreeOrDiscarded ==
    \A o \in Obj :
        alloc[o] /\ count[o] = 0 =>
            /\ ~IsCurrent(o)
            /\ ~HeldBySome(o)
            /\ Free(o) \/ Discarded(o)

\* C19, amended: a payload whose count is 0 is not current and not held by a
\* caller, and it is in the pool, discarded, or in the hands of a Get that has
\* not yet set its count or of a Release that is resetting it.
C19_ZeroCount ==
    \A o \in Obj :
        alloc[o] /\ count[o] = 0 =>
            /\ ~IsCurrent(o)
            /\ ~HeldBySome(o)
            /\ Free(o) \/ Discarded(o) \/ InTransit(o)

\* Of three payloads with count 0, one is in the pool, one is discarded and
\* one is being reset.
C19_Witness ==
    \E o, q, p \in Obj :
        /\ count[o] = 0 /\ Free(o)
        /\ count[q] = 0 /\ Discarded(q)
        /\ count[p] = 0 /\ BeingReset(p) /\ ~Free(p)

\* ---------------------------------------------------------------- misuse
\* C20: over-release is not detected at run time. Release acts on a reference
\* its caller does not own as on any other: it decrements the count by exactly
\* 1, whatever the count is, goes on to the resetter if and only if the result
\* is 0, and otherwise returns; it has no other outcome.
C20_OverReleaseUnchecked ==
    [][pc[1] = "Release" /\ obj[1] # Nil /\ Steps(1) =>
          /\ count' = [count EXCEPT ![obj[1]] = @ - 1]
          /\ IF count[obj[1]] = 1
             THEN pc'[1] = "returnToPool" /\ obj'[1] = obj[1]
             ELSE pc'[1] = "idle"]_vars

\* After two Releases too many, one payload has a negative count while the
\* resetter is invoked on the Container's current payload, which the caller
\* also holds from an Acquire.
C20_Witness ==
    \E o, q \in Obj :
        /\ count[o] < 0
        /\ BeingReset(q)
        /\ IsCurrent(q)
        /\ HeldBy(1, q)
        /\ misuse = 2

\* ---------------------------------------------------------------- the lock
\* Goroutine t is inside the shared section of Acquire on c (between RLock
\* and RUnlock).
InShared(t, c) ==
    cont[t] = c /\ pc[t] \in {"Acquire_read", "Acquire_addRef", "Acquire_RUnlock"}

\* Goroutine t is inside the exclusive section of Update on c (between Lock
\* and Unlock).
InExclusive(t, c) ==
    cont[t] = c /\ pc[t] \in {"Update_read", "Update_store", "Update_unlock"}

\* C21: Acquire increments inside the shared critical section. From its read
\* of the current slot to its increment, an Acquire holds the read lock and no
\* Update is inside its exclusive section on that Container, so no step swaps
\* the pointer; the payload it increments is the current one and has count at
\* least 1 at the increment, which adds exactly 1.
C21_IncrementInSection ==
    /\ [](\A t \in Thread :
            pc[t] = "Acquire_addRef" =>
                /\ t \in readers[cont[t]]
                /\ \A u \in Thread : ~InExclusive(u, cont[t])
                /\ obj[t] = current[cont[t]]
                /\ count[obj[t]] >= 1)
    /\ [][\A t \in Thread :
            pc[t] = "Acquire_addRef" =>
                /\ current'[cont[t]] = current[cont[t]]
                /\ Steps(t) =>
                      /\ count' = [count EXCEPT ![obj[t]] = @ + 1]
                      /\ t \in readers'[cont[t]]]_vars

\* An Acquire is about to increment the current payload, of which a reference
\* is already outstanding, while a writer that has called Update with a new
\* payload waits in Lock for the reader to leave.
C21_Witness ==
    \E t, u \in Thread :
        /\ pc[t] = "Acquire_addRef"
        /\ pc[u] = "Update_Lock_wait"
        /\ cont[u] = cont[t]
        /\ newObj[u] # Nil
        /\ count[obj[t]] >= 2

\* Goroutine t holds the lock of c, for reading or for writing.
HoldsLock(t, c) == writer[c] = t \/ t \in readers[c]

\* C22: the resetter runs outside the Container lock. A goroutine that is
\* inside Pool.Release, from the call to the return of Reset and to the Put,
\* holds neither the read nor the write lock of any Container, whether the
\* Release comes from Update, from Container.Release or from Pool.Release.
C22_ResetOutsideLock ==
    \A t \in Thread :
        pc[t] \in {"Release", "returnToPool", "Put"} =>
            \A c \in Cont : ~HoldsLock(t, c)

\* The resetter is running on the payload an Update has swapped out, while
\* the other goroutine is inside the shared section of an Acquire.
C22_Witness ==
    \E t, u \in Thread : \E c \in Cont :
        /\ pc[t] = "returnToPool"
        /\ updated[c]
        /\ InShared(u, c)
        /\ obj[u] # Nil
        /\ obj[u] # obj[t]

\* C23: reader/writer exclusion on the current slot. While a goroutine is
\* inside the exclusive section of an Update it holds the write lock, and
\* no other goroutine is inside an exclusive section or a shared section of
\* the same Container; so the pointer swaps of a Container happen one at a
\* time, each by the goroutine that has the lock. (Two goroutines inside the
\* shared section at once: the witness.)
C23_Exclusion ==
    /\ [](\A c \in Cont : \A t \in Thread :
            InExclusive(t, c) =>
                /\ writer[c] = t
                /\ readers[c] = {}
                /\ \A u \in Thread :
                      u # t => ~InExclusive(u, c) /\ ~InShared(u, c))
    /\ [][\A c \in Cont :
            live(c) /\ current'[c] # current[c] =>
                \E t \in Thread :
                    /\ InExclusive(t, c)
                    /\ pc[t] = "Update_store"
                    /\ Steps(t)
                    /\ \A u \in Thread : u # t => ~InExclusive(u, c)']_vars

\* Two goroutines are inside the shared section of Acquire on the same
\* Container at once, each about to increment the current payload, while no
\* writer waits.
C23_Witness ==
    \E t, u \in Thread : \E c \in Cont :
        /\ t # u
        /\ InShared(t, c)
        /\ InShared(u, c)
        /\ pc[t] = "Acquire_addRef"
        /\ pc[u] = "Acquire_addRef"
        /\ readers[c] = {t, u}
        /\ writer[c] = Nil

InAcquire(t) ==
    pc[t] \in {"Acquire_RLock", "Acquire_read", "Acquire_addRef", "Acquire_RUnlock"}

\* C24: the lock is held only during pointer acquisition. A goroutine has
\* the lock only while it is inside Update or Acquire on that Container: not
\* between the return of an Acquire and the Release of what it returned, not
\* while fn runs inside WithAcquire, not inside Release. A held payload, also
\* one that has been swapped out, has a count of at least the references held
\* and is neither being reset nor in the pool. And under fair scheduling every
\* Update that has been called, also from inside fn, returns, whether or not
\* the holders ever release.
C24_LockOnlyInAcquisition ==
    /\ [](\A t \in Thread :
            /\ \A c \in Cont :
                  HoldsLock(t, c) => cont[t] = c /\ (InUpdate(t) \/ InAcquire(t))
            /\ \A o \in Obj :
                  HeldBy(t, o) =>
                      /\ count[o] >= held[t][o]
                      /\ ~BeingReset(o)
                      /\ ~Free(o))
    /\ \A t \in Thread : InUpdate(t) ~> ~InUpdate(t)

\* Inside the fn of a WithAcquire, a reader has called Update and swapped out
\* the very payload fn was given: the Update is about to unlock and release
\* the Container's hold, and the payload stays held by fn.
C24_Witness ==
    \E t \in Reader :
        /\ wa[t] = "fn"
        /\ pc[t] = "Update_unlock"
        /\ oldObj[t] # Nil
        /\ oldObj[t] = waObj[t]
        /\ HeldTotal(t) = MaxHeld

\* ---------------------------------------------------------------- one reset
\* The goroutines inside returnToPool for o.
Resetters(o) == {t \in Thread : pc[t] \in {"returnToPool", "Put"} /\ obj[t] = o}

\* C25: the resetter is invoked at most once per lifecycle. Of the Releases
\* of a payload, the one that goes on to the resetter is the one that takes
\* the count from 1 to 0, with no other Release of it still to come; while a
\* payload is being reset or is in the pool, it is so once only, its count is
\* 0 and nobody holds it or is releasing it; and a count of 0 stays 0 until a
\* Get (or the construction of a Container) sets it, so no second reset and
\* no second Put can come before the next Get.
C25_ResetOnce ==
    /\ [](\A o \in Obj :
            /\ Cardinality(Resetters(o)) + internal[o] <= 1
            /\ Resetters(o) # {} \/ Free(o) =>
                  /\ count[o] = 0
                  /\ Holders(o) = 0
                  /\ ~IsCurrent(o)
                  /\ ~HeldBySome(o))
    /\ [][/\ \A t \in Thread :
              pc[t] = "Release" /\ obj[t] # Nil /\ pc'[t] = "returnToPool" =>
                  /\ count[obj[t]] = 1
                  /\ Resetters(obj[t]) = {}
                  /\ \A u \in Thread : u # t => ~(pc[u] = "Release" /\ obj[u] = obj[t])
       /\ \A o \in Obj :
              alloc[o] /\ count[o] = 0 /\ count'[o] # 0 =>
                  /\ count'[o] = 1
                  /\ \E t \in Thread : pc[t] = "Get_setRef" /\ r[t] = o /\ Steps(t)]_vars

\* Two goroutines race to release the last two references to a superseded
\* payload: both have called Release and neither has decremented yet.
C25_Witness ==
    \E t, u \in Thread :
        /\ t # u
        /\ pc[t] = "Release"
        /\ pc[u] = "Release"
        /\ obj[t] # Nil
        /\ obj[u] = obj[t]
        /\ ~IsCurrent(obj[t])
        /\ count[obj[t]] = 2

\* C26: free-list well-formedness. With well-behaved callers the pool stores
\* no payload twice, and a payload it stores has count 0, is not the current
\* payload of a Container, is held by no caller and is in the hands of no
\* operation in progress.
C26_FreeListWellFormed ==
    \A o \in Obj :
        /\ internal[o] <= 1
        /\ Free(o) =>
              /\ count[o] = 0
              /\ ~IsCurrent(o)
              /\ ~HeldBySome(o)
              /\ \A t \in Thread :
                    r[t] # o /\ obj[t] # o /\ newObj[t] # o /\ oldObj[t] # o

\* The pool stores two different payloads while the third is current and
\* held by both goroutines.
C26_Witness ==
    \E o, q, p \in Obj :
        /\ o # q
        /\ Free(o)
        /\ Free(q)
        /\ IsCurrent(p)
        /\ HeldBy(1, p)
        /\ HeldBy(2, p)
        /\ count[p] = 3
====
